---- MODULE Spec2Model ----
(***************************************************************************)
(* Model of repo_import/src/info.rs: the batch extractor                   *)
(* (extract_info_local), the manifest parser (parse_crate_name,            *)
(* from_cargo_toml), the target classifier (is_crate_lib), the CSV         *)
(* serializer (write_into_csv, write_to_csv, get_fields) and the namespace *)
(* utility (extract_namespace).                                            *)
(*                                                                         *)
(* Text is modelled as a sequence of one-character strings wherever the    *)
(* code inspects characters (URL paths, the ".git" suffix); names, ids and *)
(* field values the code only copies are TLA+ strings.                     *)
(***************************************************************************)
EXTENDS Integers, Sequences, FiniteSets, TLC

VARIABLES
    \* extract_info_local
    pc, abort, root_cargo, id, min_depth, max_depth, log, res, src,
    \* is_crate_lib called on its own
    c_meta, c_pc, c_ret,
    \* from_cargo_toml called on its own
    p_file, p_id, p_pc, p_ret,
    \* write_into_csv
    file, map_order, w_pc, w_recs, w_i, w_prev,
    \* extract_namespace
    n_url, n_pc, n_ret

extractVars == <<pc, abort, root_cargo, id, min_depth, max_depth, log, res, src>>
classifyVars == <<c_meta, c_pc, c_ret>>
programVars == <<p_file, p_id, p_pc, p_ret>>
csvVars == <<file, map_order, w_pc, w_recs, w_i, w_prev>>
nsVars == <<n_url, n_pc, n_ret>>
vars == <<extractVars, classifyVars, programVars, csvVars, nsVars>>

----------------------------------------------------------------------------
(* Bounds of the model *)

\* longest walk (number of directory entries the traversal yields)
MaxEntries == 2
\* deepest directory level of the scanned tree
MaxDepth == 4
\* most build targets of a root package
MaxTargets == 2
\* most records handed to one write_into_csv call
MaxRecords == 2
\* most path segments of a URL
MaxSegs == 3
\* most pieces a path segment is concatenated from
MaxParts == 2

----------------------------------------------------------------------------
(* Option<String> *)

None == [some |-> FALSE, v |-> ""]
Some(s) == [some |-> TRUE, v |-> s]

----------------------------------------------------------------------------
(* Character sequences *)

DotGit == <<".", "g", "i", "t">>
Slash == <<"/">>

\* str::ends_with
EndsWith(s, suf) ==
    /\ Len(s) >= Len(suf)
    /\ SubSeq(s, Len(s) - Len(suf) + 1, Len(s)) = suf

\* str::starts_with
StartsWith(s, pre) ==
    /\ Len(s) >= Len(pre)
    /\ SubSeq(s, 1, Len(pre)) = pre

\* str::replace(pat, ""): every non-overlapping match, left to right
RECURSIVE RemoveAll(_, _)
RemoveAll(s, pat) ==
    IF s = <<>> THEN <<>>
    ELSE IF StartsWith(s, pat)
         THEN RemoveAll(SubSeq(s, Len(pat) + 1, Len(s)), pat)
         ELSE <<Head(s)>> \o RemoveAll(Tail(s), pat)

\* str::split('/'): the pieces between separators; an empty text gives one
\* empty piece
RECURSIVE SplitSlash(_)
SplitSlash(s) ==
    IF \A i \in 1..Len(s) : s[i] # "/" THEN <<s>>
    ELSE LET k == CHOOSE i \in 1..Len(s) :
                      /\ s[i] = "/"
                      /\ \A j \in 1..(i - 1) : s[j] # "/"
         IN <<SubSeq(s, 1, k - 1)>> \o SplitSlash(SubSeq(s, k + 1, Len(s)))

----------------------------------------------------------------------------
(* extract_namespace *)

NsErr == [ok |-> FALSE, val |-> <<>>]
NsOk(s) == [ok |-> TRUE, val |-> s]

remove_dot_git_suffix(input) ==
    IF EndsWith(input, DotGit) THEN RemoveAll(input, DotGit) ELSE input

\* path_segments that forgets to drop the leading "/" of the path
path_segments_keep_slash(url) ==
    IF url.form = "opaque" THEN [some |-> FALSE, segs |-> <<>>]
    ELSE [some |-> TRUE, segs |-> SplitSlash(url.path)]

\* Url::path_segments of a parsed URL: None for a cannot-be-a-base URL,
\* otherwise the path without its leading "/" split on "/"
path_segments(url) ==
    IF url.form = "opaque" THEN [some |-> FALSE, segs |-> <<>>]
    ELSE [some |-> TRUE, segs |-> SplitSlash(Tail(url.path))]

extract_namespace(url_str) ==
    IF url_str.form = "invalid" THEN NsErr
    ELSE LET ps == path_segments(url_str) IN
         IF ~ps.some THEN NsErr
         ELSE LET segments == ps.segs IN
              IF Len(segments) < 2 THEN NsErr
              ELSE NsOk(remove_dot_git_suffix(
                       segments[Len(segments) - 1] \o Slash
                           \o segments[Len(segments)]))

\* Inputs: path segments concatenated from pieces, joined into URL paths
Pieces == {<<"a">>, DotGit}

RECURSIVE Concat(_)
Concat(ss) == IF ss = <<>> THEN <<>> ELSE Head(ss) \o Concat(Tail(ss))

Segments ==
    {Concat(ps) : ps \in UNION {[1..n -> Pieces] : n \in 0..MaxParts}}

RECURSIVE JoinPath(_)
JoinPath(segs) ==
    IF segs = <<>> THEN <<>> ELSE Slash \o Head(segs) \o JoinPath(Tail(segs))

\* the path of a parsed hierarchical URL always starts with "/"
Paths ==
    {IF segs = <<>> THEN Slash ELSE JoinPath(segs) :
        segs \in UNION {[1..n -> Segments] : n \in 0..MaxSegs}}

Urls ==
    {[form |-> "invalid", path |-> <<>>], [form |-> "opaque", path |-> <<>>]}
        \cup {[form |-> "hier", path |-> p] : p \in Paths}

NsIdle == n_url = [form |-> "invalid", path |-> <<>>] /\ n_pc = "idle" /\ n_ret = NsErr

NsInit == n_url \in Urls /\ n_pc = "call" /\ n_ret = NsErr

ExtractNamespace ==
    /\ n_pc = "call"
    /\ n_ret' = extract_namespace(n_url)
    /\ n_pc' = "done"
    /\ UNCHANGED <<n_url, extractVars, classifyVars, programVars, csvVars>>

----------------------------------------------------------------------------
(* Cargo.toml documents (toml::Value) *)

Absent == [t |-> "absent", s |-> ""]
Str(s) == [t |-> "str", s |-> s]
\* a value that is present but not a string (a table such as
\* version.workspace = true, a number, ...)
Other == [t |-> "other", s |-> ""]

Names == {"a", "b"}

\* A manifest file: whether fs::read_to_string succeeds, whether the content
\* parses as TOML, whether it has a [package] table, and that table's keys
Blank(readable, syntax) ==
    [readable |-> readable, syntax |-> syntax, pkg |-> FALSE, name |-> Absent,
     version |-> Absent, description |-> Absent, decription |-> Absent]

Files ==
    {Blank(FALSE, FALSE), Blank(TRUE, FALSE), Blank(TRUE, TRUE)}
        \cup [readable : {TRUE}, syntax : {TRUE}, pkg : {TRUE},
              name : {Absent, Other} \cup {Str(n) : n \in Names},
              version : {Absent, Other, Str("1.0")},
              description : {Absent, Str("d")},
              decription : {Absent, Str("x")}]

\* Value::get on the [package] table
PkgGet(f, key) == IF f.pkg THEN f[key] ELSE Absent

\* Value::as_str
AsStr(v) == IF v.t = "str" THEN Some(v.s) ELSE None

ParseErr == [ok |-> FALSE, name |-> ""]

parse_crate_name(f) ==
    IF ~f.readable THEN ParseErr
    ELSE IF ~f.syntax THEN ParseErr
    ELSE LET n == AsStr(PkgGet(f, "name")) IN
         IF ~n.some THEN ParseErr ELSE [ok |-> TRUE, name |-> n.v]

NoProgram == [id |-> "", name |-> "", description |-> None, version |-> None]

\* Program::new(id, name, description, None, version, None, None, None)
Program_new(i, name, description, version) ==
    [id |-> i, name |-> name, description |-> description, version |-> version]

\* from_cargo_toml stamping the record with an id of its own
from_cargo_toml_own_id(f, i) ==
    IF ~f.readable \/ ~f.syntax THEN [st |-> "err", program |-> NoProgram]
    ELSE IF ~f.pkg \/ f.name.t = "absent" \/ f.version.t = "absent"
    THEN [st |-> "panic", program |-> NoProgram]
    ELSE [st |-> "ok",
          program |-> Program_new(
              "uuid0",
              IF AsStr(f.name).some THEN AsStr(f.name).v ELSE "",
              LET d == PkgGet(f, "decription") IN
                  AsStr(IF d.t = "absent" THEN Str("") ELSE d),
              AsStr(f.version))]

\* Value's Index operator panics ("index not found") on a missing key, so
\* parsed["package"], ["name"] and ["version"] each panic when absent
from_cargo_toml(f, i) ==
    IF ~f.readable THEN [st |-> "err", program |-> NoProgram]
    ELSE IF ~f.syntax THEN [st |-> "err", program |-> NoProgram]
    ELSE IF ~f.pkg \/ f.name.t = "absent" \/ f.version.t = "absent"
    THEN [st |-> "panic", program |-> NoProgram]
    ELSE [st |-> "ok",
          program |-> Program_new(
              i,
              IF AsStr(f.name).some THEN AsStr(f.name).v ELSE "",
              LET d == PkgGet(f, "decription") IN
                  AsStr(IF d.t = "absent" THEN Str("") ELSE d),
              AsStr(f.version))]

Ids == {"uuid1", "uuid2"}

ProgramIdle ==
    p_file = Blank(FALSE, FALSE) /\ p_id = "" /\ p_pc = "idle"
        /\ p_ret = [st |-> "err", program |-> NoProgram]

ProgramInit ==
    p_file \in Files /\ p_id \in Ids /\ p_pc = "call"
        /\ p_ret = [st |-> "err", program |-> NoProgram]

FromCargoToml ==
    /\ p_pc = "call"
    /\ p_ret' = from_cargo_toml(p_file, p_id)
    /\ p_pc' = "done"
    /\ UNCHANGED <<p_file, p_id, extractVars, classifyVars, csvVars, nsVars>>

----------------------------------------------------------------------------
(* is_crate_lib *)

Kinds == {"lib", "bin", "example"}

\* What MetadataCommand::exec gives for a manifest: an error, or the metadata
\* with the root package's targets, each target a set of kinds.  The
\* classifier is only called for a manifest whose package name parsed, and
\* for such a manifest a successful query always names a root package.
MetaErr == [ok |-> FALSE, root |-> FALSE, targets |-> <<>>]
MetaOk(ts) == [ok |-> TRUE, root |-> TRUE, targets |-> ts]

TargetLists(n) == UNION {[1..k -> (SUBSET Kinds) \ {{}}] : k \in 0..n}

Metas == {MetaErr} \cup {MetaOk(ts) : ts \in TargetLists(MaxTargets)}

\* the for loop over package.targets from target i on: false at the first
\* target whose kinds contain "bin", true when the targets are exhausted
RECURSIVE LoopTargets(_, _)
LoopTargets(targets, i) ==
    IF i > Len(targets) THEN TRUE
    ELSE IF "bin" \in targets[i] THEN FALSE
    ELSE LoopTargets(targets, i + 1)

\* the classifier with the test reversed to "lib"
is_crate_lib_by_lib(meta) ==
    IF ~meta.ok THEN [st |-> "err", islib |-> FALSE]
    ELSE IF ~meta.root THEN [st |-> "panic", islib |-> FALSE]
    ELSE [st |-> "ok", islib |-> \E i \in 1..Len(meta.targets) : "lib" \in meta.targets[i]]

is_crate_lib(meta) ==
    IF ~meta.ok THEN [st |-> "err", islib |-> FALSE]
    ELSE IF ~meta.root THEN [st |-> "panic", islib |-> FALSE]
    ELSE [st |-> "ok", islib |-> LoopTargets(meta.targets, 1)]

ClassifyIdle ==
    c_meta = MetaErr /\ c_pc = "idle" /\ c_ret = [st |-> "err", islib |-> FALSE]

ClassifyInit ==
    c_meta \in Metas /\ c_pc = "call" /\ c_ret = [st |-> "err", islib |-> FALSE]

IsCrateLib ==
    /\ c_pc = "call"
    /\ c_ret' = is_crate_lib(c_meta)
    /\ c_pc' = "done"
    /\ UNCHANGED <<c_meta, extractVars, programVars, csvVars, nsVars>>

----------------------------------------------------------------------------
(* extract_info_local *)

\* path.join("Cargo.toml").is_file(), root_cargo being what the root
\* directory holds under that name: "none", a "file" or a "dir"
exists_cargo_toml(root) == root = "file"

\* a window that always starts at the root level
DepthWindowFromRoot(has_root) == IF has_root THEN <<1, 2>> ELSE <<1, 3>>

\* (min_depth, max_depth)
DepthWindow(has_root) == IF has_root THEN <<1, 2>> ELSE <<2, 3>>

\* the variant built the wrong way round
MakeUProgramSwapped(islib, i, name) ==
    IF islib
    THEN [tag |-> "Application", id |-> i, name |-> name, count |-> 0]
    ELSE [tag |-> "Library", id |-> i, name |-> name, count |-> -1]

\* Library::new(id, name, -1, None) or Application::new(id, name)
MakeUProgram(islib, i, name) ==
    IF islib
    THEN [tag |-> "Library", id |-> i, name |-> name, count |-> -1]
    ELSE [tag |-> "Application", id |-> i, name |-> name, count |-> 0]

\* Directory entries the traversal may come to.  depth is measured from the
\* repository root; cargo says the file name is "Cargo.toml"; walk_ok is
\* FALSE for an entry WalkDir reports as an error; utf8 says the path is
\* valid UTF-8 (the root path is taken to be, so depth-1 paths are).
\* A manifest cargo cannot name a package for makes the metadata query fail.
WalkMetas ==
    {MetaErr} \cup {MetaOk(ts) : ts \in
        {<<>>, <<{"lib"}>>, <<{"bin"}>>, <<{"lib"}, {"bin"}>>}}

WalkFiles == {f \in Files : f.decription = Absent}

OtherEntries ==
    [depth : 1..MaxDepth, cargo : {FALSE}, walk_ok : BOOLEAN, utf8 : {TRUE},
     file : {Blank(FALSE, FALSE)}, meta : {MetaErr}]

ManifestEntries ==
    {e \in [depth : 1..MaxDepth, cargo : {TRUE}, walk_ok : {TRUE},
            utf8 : BOOLEAN, file : WalkFiles, meta : WalkMetas] :
        /\ (e.depth = 1 => e.utf8)
        /\ (~parse_crate_name(e.file).ok => e.meta = MetaErr)}

Entries == OtherEntries \cup ManifestEntries

\* An entry named Cargo.toml directly under the root exists only as the tree
\* has it: once, and unreadable as a manifest when it is a directory
FitsTree(e, root, seen) ==
    (e.depth = 1 /\ e.cargo) =>
        /\ root # "none"
        /\ (root = "dir" => ~e.file.readable)
        /\ \A k \in 1..Len(seen) : ~(seen[k].depth = 1 /\ seen[k].cargo)

HasBin(meta) == \E k \in 1..Len(meta.targets) : "bin" \in meta.targets[k]

\* One iteration of the for loop over the walk, for entry e, with the
\* window (lo, hi), the run id i and the results r so far.  st is "next"
\* when the loop goes on with res, and otherwise the call that panicked.
LoopBody(e, lo, hi, i, r) ==
    IF ~e.walk_ok THEN [st |-> "next", res |-> r]
    ELSE IF e.depth < lo \/ e.depth > hi THEN [st |-> "next", res |-> r]
    ELSE IF ~e.cargo THEN [st |-> "next", res |-> r]
    ELSE LET n == parse_crate_name(e.file) IN
         IF ~n.ok THEN [st |-> "next", res |-> r]
         ELSE IF ~e.utf8 THEN [st |-> "entry_path.to_str().unwrap()", res |-> r]
         ELSE LET c == is_crate_lib(e.meta) IN
              IF c.st = "panic"
              THEN [st |-> "metadata.root_package().unwrap()", res |-> r]
              ELSE IF c.st = "err" THEN [st |-> "next", res |-> r]
              ELSE LET p == from_cargo_toml(e.file, i) IN
                   IF p.st # "ok"
                   THEN [st |-> "from_cargo_toml(entry_path, &id).unwrap()",
                         res |-> r]
                   ELSE [st |-> "next",
                         res |-> Append(r,
                             [program |-> p.program,
                              uprogram |-> MakeUProgram(c.islib, i, n.name)])]

ExtractIdle ==
    /\ pc = "idle" /\ abort = "" /\ root_cargo = "none" /\ id = ""
    /\ min_depth = 0 /\ max_depth = 0
    /\ log = <<>> /\ res = <<>> /\ src = <<>>

ExtractInit ==
    /\ pc = "start" /\ abort = ""
    /\ root_cargo \in {"none", "file", "dir"} /\ id = ""
    /\ min_depth = 0 /\ max_depth = 0
    /\ log = <<>> /\ res = <<>> /\ src = <<>>

\* lines 17-28: the run id and the depth window
Start ==
    /\ pc = "start"
    /\ id' \in Ids
    /\ min_depth' = DepthWindow(exists_cargo_toml(root_cargo))[1]
    /\ max_depth' = DepthWindow(exists_cargo_toml(root_cargo))[2]
    /\ pc' = "walk"
    /\ UNCHANGED <<abort, root_cargo, log, res, src>>
    /\ UNCHANGED <<classifyVars, programVars, csvVars, nsVars>>

\* One entry of the walk.  log and src are history: log records each entry
\* come to (good: its name parses and its metadata query succeeds), src the
\* entry each pair of res was built from, abort the call that panicked.
WalkEntry ==
    /\ pc = "walk"
    /\ Len(log) < MaxEntries
    /\ \E e \in Entries :
        /\ FitsTree(e, root_cargo, log)
        /\ LET out == LoopBody(e, min_depth, max_depth, id, res) IN
            /\ res' = out.res
            /\ pc' = IF out.st = "next" THEN "walk" ELSE "panicked"
            /\ abort' = IF out.st = "next" THEN abort ELSE out.st
            /\ src' = IF Len(out.res) > Len(res)
                       THEN Append(src, [idx |-> Len(log) + 1, depth |-> e.depth,
                                         bin |-> HasBin(e.meta)])
                       ELSE src
        /\ log' = Append(log, [depth |-> e.depth, cargo |-> e.cargo,
                               good |-> /\ e.cargo
                                        /\ parse_crate_name(e.file).ok
                                        /\ e.meta.ok])
    /\ UNCHANGED <<root_cargo, id, min_depth, max_depth>>
    /\ UNCHANGED <<classifyVars, programVars, csvVars, nsVars>>

\* the walk is exhausted and res is returned; a Cargo.toml directly under
\* the root has been come to by then
Finish ==
    /\ pc = "walk"
    /\ root_cargo # "none" =>
           \E k \in 1..Len(log) : log[k].depth = 1 /\ log[k].cargo
    /\ pc' = "done"
    /\ UNCHANGED <<abort, root_cargo, id, min_depth, max_depth, log, res, src>>
    /\ UNCHANGED <<classifyVars, programVars, csvVars, nsVars>>

----------------------------------------------------------------------------
(* write_into_csv *)

\* The record type written: Program, with its fields in declaration order
DeclaredFields == <<"id", "name", "description", "version">>

\* the same names in the order of a sorted map
SortedFields == <<"description", "id", "name", "version">>

JNull == [t |-> "null", s |-> "null"]
JStr(s) == [t |-> "str", s |-> s]
JOpt(o) == IF o.some THEN JStr(o.v) ELSE JNull

\* serde_json's object for a record: each field name with its value
ToJson(rec) ==
    [k \in {"id", "name", "description", "version"} |->
        IF k = "id" THEN JStr(rec.id)
        ELSE IF k = "name" THEN JStr(rec.name)
        ELSE IF k = "description" THEN JOpt(rec.description)
        ELSE JOpt(rec.version)]

\* The order a serde_json Map iterates in: by key in the default build,
\* by insertion (declaration) with the preserve_order feature
MapKeys(order) == IF order = "sorted" THEN SortedFields ELSE DeclaredFields

\* map.values() rendered as text: a string as it is, anything else by
\* to_string (null gives "null")
get_fields(rec, order) ==
    [j \in 1..Len(MapKeys(order)) |-> ToJson(rec)[MapKeys(order)[j]].s]

\* write_to_csv that opens for append whatever it is asked
write_to_csv_append(f, data, append, io) ==
    IF io = "open_fails" THEN [ok |-> FALSE, file |-> f]
    ELSE IF io = "write_fails" THEN [ok |-> FALSE, file |-> f]
    ELSE [ok |-> TRUE, file |-> Append(f, data)]

\* One record written to the file f (a sequence of rows), opened for append
\* or truncated.  io is what the file system does: "ok", "open_fails" (the
\* file is left as it was) or "write_fails" (after the open, so a truncated
\* file is left empty).
write_to_csv(f, data, append, io) ==
    IF io = "open_fails" THEN [ok |-> FALSE, file |-> f]
    ELSE LET opened == IF append THEN f ELSE <<>> IN
         IF io = "write_fails" THEN [ok |-> FALSE, file |-> opened]
         ELSE [ok |-> TRUE, file |-> Append(opened, data)]

IoOutcomes == {"ok", "open_fails", "write_fails"}

CsvRecords ==
    [id : {"uuid1"}, name : Names, description : {None, Some("d")},
     version : {Some("1.0")}]

CsvInputs == UNION {[1..n -> CsvRecords] : n \in 0..MaxRecords}

CsvIdle ==
    /\ file = <<>> /\ map_order = "sorted" /\ w_pc = "idle"
    /\ w_recs = <<>> /\ w_i = 0 /\ w_prev = <<>>

\* the file may hold anything before the first call
CsvInit ==
    /\ file \in {<<>>, << <<"junk">> >>}
    /\ map_order \in {"sorted", "declared"}
    /\ w_pc = "idle" /\ w_recs = <<>> /\ w_i = 0 /\ w_prev = <<>>

\* a call of write_into_csv(csv_path, programs); w_prev keeps what the file
\* held when the call was made
CallWrite ==
    /\ w_pc \in {"idle", "done", "err"}
    /\ w_recs' \in CsvInputs
    /\ w_prev' = file
    /\ w_i' = 1
    /\ w_pc' = "header"
    /\ UNCHANGED <<file, map_order>>
    /\ UNCHANGED <<extractVars, classifyVars, programVars, nsVars>>

\* lines 186-196: the field names of T::default(), written to the
\* truncated file
WriteHeader ==
    /\ w_pc = "header"
    /\ \E io \in IoOutcomes :
        LET out == write_to_csv(file, MapKeys(map_order), FALSE, io) IN
            /\ file' = out.file
            /\ w_pc' = IF ~out.ok THEN "err"
                        ELSE IF Len(w_recs) = 0 THEN "done" ELSE "rows"
    /\ UNCHANGED <<map_order, w_recs, w_i, w_prev>>
    /\ UNCHANGED <<extractVars, classifyVars, programVars, nsVars>>

\* lines 198-206: one iteration of the loop over programs, returning Ok
\* after the last
WriteRow ==
    /\ w_pc = "rows"
    /\ \E io \in IoOutcomes :
        LET out == write_to_csv(file, get_fields(w_recs[w_i], map_order), TRUE, io) IN
            /\ file' = out.file
            /\ w_pc' = IF ~out.ok THEN "err"
                        ELSE IF w_i = Len(w_recs) THEN "done" ELSE "rows"
    /\ w_i' = w_i + 1
    /\ UNCHANGED <<map_order, w_recs, w_prev>>
    /\ UNCHANGED <<extractVars, classifyVars, programVars, nsVars>>

----------------------------------------------------------------------------
(* Specifications *)

\* extract_info_local on a repository tree
Init == ExtractInit /\ ClassifyIdle /\ ProgramIdle /\ CsvIdle /\ NsIdle
Next == Start \/ WalkEntry \/ Finish
Spec == Init /\ [][Next]_vars

\* is_crate_lib on a metadata answer
InitClassify == ExtractIdle /\ ClassifyInit /\ ProgramIdle /\ CsvIdle /\ NsIdle
NextClassify == IsCrateLib
SpecClassify == InitClassify /\ [][NextClassify]_vars

\* from_cargo_toml on a manifest file
InitProgram == ExtractIdle /\ ClassifyIdle /\ ProgramInit /\ CsvIdle /\ NsIdle
NextProgram == FromCargoToml
SpecProgram == InitProgram /\ [][NextProgram]_vars

\* calls of write_into_csv on one path
InitCsv == ExtractIdle /\ ClassifyIdle /\ ProgramIdle /\ CsvInit /\ NsIdle
NextCsv == CallWrite \/ WriteHeader \/ WriteRow
SpecCsv == InitCsv /\ [][NextCsv]_vars

\* extract_namespace on a URL string
InitNs == ExtractIdle /\ ClassifyIdle /\ ProgramIdle /\ CsvIdle /\ NsInit
NextNs == ExtractNamespace
SpecNs == InitNs /\ [][NextNs]_vars

----------------------------------------------------------------------------
(* Properties of extract_info_local, under Spec *)

\* the depth window the specification gives for the tree
SpecWindow == IF root_cargo = "file" THEN 1..2 ELSE 2..3

\* entry k of the walk is a Cargo.toml in the window whose name parses and
\* whose classification succeeds
Expected(k) == log[k].cargo /\ log[k].good /\ log[k].depth \in SpecWindow

Yielded(k) == \E j \in 1..Len(src) : src[j].idx = k

\* C1: the call never aborts, and when it returns, res holds exactly one
\* pair for each Cargo.toml in the window whose name parsing and
\* classification both succeeded, and none for any other entry.
C1_AlwaysCompletes ==
    /\ pc # "panicked"
    /\ pc = "done" =>
        /\ Len(res) = Cardinality({k \in 1..Len(log) : Expected(k)})
        /\ \A k \in 1..Len(log) : Expected(k) <=> Yielded(k)

\* C3: the walk uses depths 1..2 when the root holds a Cargo.toml file and
\* 2..3 when it does not, and no pair of res comes from a Cargo.toml
\* outside that window.
C3_DepthWindow ==
    /\ pc \in {"walk", "done", "panicked"} =>
        /\ root_cargo = "file" => min_depth = 1 /\ max_depth = 2
        /\ root_cargo # "file" => min_depth = 2 /\ max_depth = 3
    /\ \A j \in 1..Len(src) : src[j].depth \in SpecWindow

\* a finished walk that came to a usable manifest outside the window, which
\* gave no pair, and to one inside, which did
C3_Witness ==
    /\ pc = "done"
    /\ Len(res) >= 1
    /\ \E k \in 1..Len(log) :
        /\ log[k].cargo /\ log[k].good
        /\ log[k].depth \notin SpecWindow
        /\ ~Yielded(k)

C6_SharedNameAndId ==
    \A j \in 1..Len(res) :
        /\ res[j].program.name = res[j].uprogram.name
        /\ res[j].program.id = id
        /\ res[j].uprogram.id = id

\* a finished walk that gave two pairs, for two package names
C6_Witness ==
    /\ pc = "done"
    /\ Len(res) = 2
    /\ res[1].program.name # res[2].program.name

----------------------------------------------------------------------------
(* Properties of is_crate_lib, under SpecClassify *)

\* C2: when the metadata query succeeds, is_crate_lib returns false exactly
\* when some target of the root package has "bin" among its kinds.
C2_BinDominates ==
    (c_pc = "done" /\ c_meta.ok) =>
        /\ c_ret.st = "ok"
        /\ c_ret.islib = FALSE <=>
               \E k \in 1..Len(c_meta.targets) : "bin" \in c_meta.targets[k]

\* a package with a "lib" and a "bin" target, classified as not a library
C2_Witness ==
    /\ c_pc = "done"
    /\ c_meta.ok
    /\ c_meta.targets = <<{"lib"}, {"bin"}>>
    /\ c_ret = [st |-> "ok", islib |-> FALSE]

----------------------------------------------------------------------------
(* Properties of from_cargo_toml, under SpecProgram *)

NamedManifest(f) == f.readable /\ f.syntax /\ f.pkg /\ f.name.t = "str"

\* C5: for a readable, valid manifest with a package name, from_cargo_toml
\* returns a Program; a missing version is absent in it, and a missing
\* description is absent or empty.
C5_OptionalFields ==
    (p_pc = "done" /\ NamedManifest(p_file) /\ p_file.decription = Absent) =>
        /\ p_ret.st = "ok"
        /\ p_file.version = Absent => p_ret.program.version = None
        /\ p_file.description = Absent =>
               p_ret.program.description \in {None, Some("")}

\* C7: the Program returned has the manifest's package name, its version
\* when declared and its description when declared.
C7_FieldsFromManifest ==
    (p_pc = "done" /\ NamedManifest(p_file) /\ p_ret.st = "ok") =>
        /\ p_ret.program.name = p_file.name.s
        /\ p_file.version.t = "str" =>
               p_ret.program.version = Some(p_file.version.s)
        /\ p_file.description.t = "str" =>
               p_ret.program.description = Some(p_file.description.s)

----------------------------------------------------------------------------
(* Properties of write_into_csv, under SpecCsv *)

\* C8: after a successful call with N records the file holds the header
\* row and N data rows, whatever it held before, and field j of every data
\* row is the value of the field the header names in column j.
C8_HeaderAndRows ==
    w_pc = "done" =>
        /\ Len(file) = 1 + Len(w_recs)
        /\ Len(file[1]) = Len(DeclaredFields)
        /\ {file[1][j] : j \in 1..Len(file[1])}
               = {DeclaredFields[j] : j \in 1..Len(DeclaredFields)}
        /\ \A r \in 1..Len(w_recs) :
            /\ Len(file[r + 1]) = Len(file[1])
            /\ \A j \in 1..Len(file[1]) :
                   file[r + 1][j] = ToJson(w_recs[r])[file[1][j]].s

\* a successful call with two records on a file an earlier call had left
\* with a header and rows
C8_Witness ==
    /\ w_pc = "done"
    /\ Len(w_recs) >= 2
    /\ Len(w_prev) >= 2
    /\ w_prev[1] = MapKeys(map_order)

----------------------------------------------------------------------------
(* Properties of extract_namespace, under SpecNs *)

SlashAt(path) == {k \in 1..Len(path) : path[k] = "/"}

\* the path has n segments when it has n "/" (the leading one included)
SegmentCount(url) == Cardinality(SlashAt(url.path))

\* the text after the last "/" but one: the last two segments with the "/"
\* between them
LastTwo(url) ==
    LET cut == CHOOSE k \in SlashAt(url.path) :
                   Cardinality({m \in SlashAt(url.path) : m > k}) = 1
    IN SubSeq(url.path, cut + 1, Len(url.path))

\* s without one trailing ".git"
WithoutGitSuffix(s) ==
    IF EndsWith(s, DotGit) THEN SubSeq(s, 1, Len(s) - Len(DotGit)) ELSE s

\* C9: for a valid URL with at least two path segments the result is the
\* last two segments joined by "/", less one trailing ".git" when there is
\* one, every other character kept.
C9_LastTwoSegments ==
    (n_pc = "done" /\ n_url.form = "hier" /\ SegmentCount(n_url) >= 2) =>
        n_ret = NsOk(WithoutGitSuffix(LastTwo(n_url)))

\* C10: an input that is not a valid URL, or whose path has fewer than two
\* segments, gives an error and no namespace.
C10_ErrorOnShortPath ==
    (n_pc = "done" /\ (n_url.form # "hier" \/ SegmentCount(n_url) < 2)) =>
        n_ret = NsErr

\* a valid URL with the single path segment "a" gave an error
C10_Witness ==
    /\ n_pc = "done"
    /\ n_url = [form |-> "hier", path |-> <<"/", "a">>]
    /\ ~n_ret.ok

====
